---- MODULE Spec2Model ----
(***************************************************************************)
(* JubitsGPT: the Gemini service module (services/gemini) and the send /  *)
(* stop pipeline of the ChatInterface component, as a state machine.       *)
(*                                                                         *)
(* Text is a sequence of tokens: the text of a user turn is <<t>> for the  *)
(* trimmed input t (<<>> when it is empty), the text of a model turn is    *)
(* the sequence of the chunk texts concatenated into it, followed by the   *)
(* markers the handlers append.                                            *)
(***************************************************************************)
EXTENDS Integers, Sequences, FiniteSets, TLC

\* ------------------------------------------------------------- bounds
MaxSends == 2      \* user turns in the list, with the stop button in use
MaxSeqSends == 3   \* user turns in the list, in a text conversation
MaxAttSends == 1   \* user turns in the list, with attachments
MaxChunks == 2     \* chunks one stream delivers before it ends
MaxPolls == 2      \* status polls a video job answers with done=false
MaxAtts == 2       \* pending attachments
MaxKeySends == 1   \* user turns in the list, with the key dialog in use
MaxSummaries == 1  \* conversation summaries asked for
MaxSid == 2        \* Chat objects created before the key dialog is closed for good
MaxSessions == 3   \* sessions createNewChat makes, the first one included
MaxMounts == 7     \* Chat objects created before the session list is left alone
MaxAppSid == 3     \* the same, with sends racing with the session list
MaxAppSends == 1   \* user turns in the list, with the session list in use

\* ---------------------------------------------------------- constants
FLASH == "gemini-2.5-flash"
PRO == "gemini-3-pro-preview"
DEFAULT_SYSTEM_INSTRUCTION == "You are JubitsGPT, a highly advanced, witty, and helpful AI assistant."
CODE_SYSTEM_INSTRUCTION == "You are JubitsGPT, an expert software engineer and coding assistant."
STOPPED == " [Stopped]"
WelcomeId == 0

Keys == {"", "k1"}
Inputs == {"", " ", " a "}
Modes == {"chat", "code", "image", "video"}
Files == {[mimeType |-> "image/png", data |-> "d1"], [mimeType |-> "application/pdf", data |-> "d2"]}
\* the batches a file dialog hands to handleFileSelect
Batches == {<<[mimeType |-> "image/png", data |-> "d1"]>>,
            <<[mimeType |-> "application/pdf", data |-> "d2"], [mimeType |-> "image/png", data |-> "d1"]>>}

VARIABLES
  apiKey,        \* localStorage 'gemini_api_key' (or process.env.API_KEY)
  aiClient,      \* the cached GoogleGenAI client: "" (null) or the key it was built with
  chatSession,   \* the active Chat object, NoSession for null
  currentModel,  \* the model chatSession was created with
  nextSid,       \* identity of the next Chat object ai.chats.create returns
  built,         \* history: GoogleGenAI clients constructed since the last setStoredApiKey
  messages,      \* ChatInterface state: the message list
  input,         \* ChatInterface state: the text box
  attachments,   \* ChatInterface state: the pending attachments
  isLoading,     \* ChatInterface state
  abort,         \* abortControllerRef.current
  mode,          \* ChatInterface state: the generation mode
  tasks,         \* the pending handleSend invocations, by slot
  historyDropped,\* history: a getHistory of this run failed
  summ,          \* the pending handleSummarizeChat invocation
  enh,           \* the pending handleEnhancePrompt invocation (isEnhancing)
  reading,       \* handleFileSelect: the batches whose FileReader promises are pending
  sessions,      \* App state: the session list; the messages of the active session
                 \* are those of the mounted ChatInterface (onUpdateMessages)
  activeSessionId, \* App state: 0 for null
  nextId         \* the id the next generateId returns

svcVars == <<apiKey, aiClient, chatSession, currentModel, nextSid, built>>
uiVars == <<messages, input, attachments, isLoading, abort, mode>>
vars == <<apiKey, aiClient, chatSession, currentModel, nextSid, built,
          messages, input, attachments, isLoading, abort, mode, tasks, historyDropped,
          summ, enh, reading, sessions, activeSessionId, nextId>>
appVars == <<sessions, activeSessionId, nextId>>
sideVars == <<summ, enh, reading, appVars>>

\* ------------------------------------------------------------ helpers
\* String.prototype.trim on the inputs of the model
Trim(s) == IF s = " " THEN "" ELSE IF s = " a " THEN "a" ELSE s

\* a string as text: the empty string is the empty text
TextOf(s) == IF s = "" THEN <<>> ELSE <<s>>

NoSession == [id |-> 0, model |-> "", systemInstruction |-> "", history |-> <<>>, key |-> ""]

Svc == [apiKey |-> apiKey, aiClient |-> aiClient, chatSession |-> chatSession,
        currentModel |-> currentModel, nextSid |-> nextSid, built |-> built]

SetSvc(s) ==
  /\ apiKey' = s.apiKey
  /\ aiClient' = s.aiClient
  /\ chatSession' = s.chatSession
  /\ currentModel' = s.currentModel
  /\ nextSid' = s.nextSid
  /\ built' = s.built

\* ---------------------------------------------------- services/gemini
\* variant: the client is built and cached before the key is tested
getAiClientCachedFirst(s) ==
  IF s.aiClient = ""
  THEN [ok |-> s.apiKey # "", svc |-> [s EXCEPT !.aiClient = IF s.apiKey = "" THEN "nokey" ELSE s.apiKey,
                                                   !.built = [@ EXCEPT !.cached = @ + 1]]]
  ELSE [ok |-> TRUE, svc |-> s]

\* no client constructed yet
NoneBuilt == [cached |-> 0, veo |-> 0]

\* variant: a client is constructed on every use
getAiClientAlwaysNew(s) ==
  IF s.apiKey = "" /\ s.aiClient = ""
  THEN [ok |-> FALSE, svc |-> s]
  ELSE [ok |-> TRUE,
        svc |-> [s EXCEPT !.aiClient = IF s.aiClient = "" THEN s.apiKey ELSE s.aiClient,
                          !.built = [@ EXCEPT !.cached = IF @ < 2 THEN @ + 1 ELSE @]]]

\* getAiClient: the cached client, built on first use; fails without a key
getAiClient(s) ==
  IF s.aiClient = ""
  THEN IF s.apiKey = ""
       THEN [ok |-> FALSE, svc |-> s]
       ELSE [ok |-> TRUE, svc |-> [s EXCEPT !.aiClient = s.apiKey,
                                            !.built = [@ EXCEPT !.cached = @ + 1]]]
  ELSE [ok |-> TRUE, svc |-> s]

\* variant: every model gets the default instruction
SystemInstructionDefault(model) == DEFAULT_SYSTEM_INSTRUCTION

SystemInstructionFor(model) ==
  IF model = PRO THEN CODE_SYSTEM_INSTRUCTION ELSE DEFAULT_SYSTEM_INSTRUCTION

\* variant: the new Chat is created without the history handed in
initializeChatFresh(s, model, history) ==
  LET c == getAiClient(s)
  IN IF ~c.ok
     THEN [ok |-> FALSE, svc |-> s]
     ELSE [ok |-> TRUE,
           svc |-> [c.svc EXCEPT
                      !.chatSession = [id |-> s.nextSid,
                                       model |-> model,
                                       systemInstruction |-> IF model = PRO
                                                             THEN CODE_SYSTEM_INSTRUCTION
                                                             ELSE DEFAULT_SYSTEM_INSTRUCTION,
                                       history |-> <<>>,
                                       key |-> c.svc.aiClient],
                      !.currentModel = model,
                      !.nextSid = s.nextSid + 1]]

\* initializeChat(model, history): a new Chat replaces chatSession
initializeChat(s, model, history) ==
  LET c == getAiClient(s)
  IN IF ~c.ok
     THEN [ok |-> FALSE, svc |-> s]
     ELSE [ok |-> TRUE,
           svc |-> [c.svc EXCEPT
                      !.chatSession = [id |-> s.nextSid,
                                       model |-> model,
                                       systemInstruction |-> SystemInstructionFor(model),
                                       history |-> history,
                                       key |-> c.svc.aiClient],
                      !.currentModel = model,
                      !.nextSid = s.nextSid + 1]]


\* variant: a call for the current model creates a new session as well
getChatSessionAlwaysNew(s, desiredModel, exportOk) ==
  IF s.chatSession.id # 0 /\ s.currentModel # desiredModel
  THEN [kind |-> "export", sid |-> 0, svc |-> s,
        hist |-> IF exportOk THEN s.chatSession.history ELSE <<>>]
  ELSE LET r == initializeChat(s, desiredModel, s.chatSession.history)
       IN [kind |-> IF r.ok THEN "session" ELSE "throw",
           sid |-> r.svc.chatSession.id, svc |-> r.svc, hist |-> <<>>]

\* getChatSession(desiredModel) up to its first await. exportOk is the
\* outcome of chatSession.getHistory(): the history, or an exception.
getChatSessionCall(s, desiredModel, exportOk) ==
  IF s.chatSession.id # 0 /\ s.currentModel # desiredModel
  THEN [kind |-> "export", sid |-> 0, svc |-> s,
        hist |-> IF exportOk THEN s.chatSession.history ELSE <<>>]
  ELSE IF s.chatSession.id = 0
       THEN LET r == initializeChat(s, desiredModel, <<>>)
            IN [kind |-> IF r.ok THEN "session" ELSE "throw",
                sid |-> r.svc.chatSession.id, svc |-> r.svc, hist |-> <<>>]
       ELSE [kind |-> "session", sid |-> s.chatSession.id, svc |-> s, hist |-> <<>>]

\* variant: a failed getHistory is not caught
getChatSessionResumeNoCatch(s, desiredModel, exportOk, history) ==
  IF exportOk
  THEN initializeChat(s, desiredModel, history)
  ELSE [ok |-> FALSE, svc |-> s]

\* variant: the switch always starts the new session empty
getChatSessionResumeEmpty(s, desiredModel, exportOk, history) ==
  initializeChat(s, desiredModel, <<>>)

\* getChatSession after the await of getHistory: initializeChat with the
\* exported history, and in the catch branch without one
getChatSessionResume(s, desiredModel, exportOk, history) ==
  LET first == IF exportOk
               THEN initializeChat(s, desiredModel, history)
               ELSE [ok |-> FALSE, svc |-> s]
  IN IF first.ok THEN first ELSE initializeChat(s, desiredModel, <<>>)

TextPart(text) == [kind |-> "text", text |-> text, mimeType |-> "", data |-> ""]
InlinePart(att) == [kind |-> "inlineData", text |-> <<>>, mimeType |-> att.mimeType, data |-> att.data]

\* variant: the text part is pushed whatever the text
MessageContentAlwaysText(message, atts) ==
  IF Len(atts) > 0
  THEN [isParts |-> TRUE, text |-> "",
        parts |-> <<TextPart(TextOf(message))>> \o [i \in 1..Len(atts) |-> InlinePart(atts[i])]]
  ELSE [isParts |-> FALSE, text |-> message, parts |-> <<>>]

\* sendMessageStream: the message field handed to session.sendMessageStream,
\* the string itself or a list of parts
MessageContent(message, atts) ==
  IF Len(atts) > 0
  THEN [isParts |-> TRUE, text |-> "",
        parts |-> (IF Trim(message) # "" THEN <<TextPart(TextOf(message))>> ELSE <<>>)
                  \o [i \in 1..Len(atts) |-> InlinePart(atts[i])]]
  ELSE [isParts |-> FALSE, text |-> message, parts |-> <<>>]

\* the user content the Chat object records for a message
UserContent(content) ==
  [role |-> "user",
   parts |-> IF content.isParts THEN content.parts ELSE <<TextPart(TextOf(content.text))>>]

ModelContent(text) == [role |-> "model", parts |-> <<TextPart(text)>>]

\* variant: the general model whatever the mode
ModelForAlwaysFlash(m) == FLASH

ModelFor(m) == IF m = "code" THEN PRO ELSE FLASH

\* ------------------------------------------------------ ChatInterface
Welcome ==
  [id |-> WelcomeId, role |-> "model", text |-> <<"Hello! I'm JubitsGPT.">>,
   isStreaming |-> FALSE, isError |-> FALSE, attachments |-> <<>>]

\* the conversations a ChatInterface can be opened with (initialMessages)
StoredConversations ==
  {<<>>,
   <<Welcome,
     [id |-> 2, role |-> "user", text |-> <<"a">>, isStreaming |-> FALSE,
      isError |-> FALSE, attachments |-> <<>>],
     [id |-> 3, role |-> "model", text |-> <<"x">>, isStreaming |-> FALSE,
      isError |-> FALSE, attachments |-> <<>>]>>}

RECURSIVE validHistoryKeepsErrors(_)
\* variant: only the welcome turn is filtered out
validHistoryKeepsErrors(msgs) ==
  IF msgs = <<>> THEN <<>>
  ELSE IF Head(msgs).id # WelcomeId
       THEN <<Head(msgs)>> \o validHistoryKeepsErrors(Tail(msgs))
       ELSE validHistoryKeepsErrors(Tail(msgs))

RECURSIVE validHistory(_)
\* initialMessages.filter(m => !m.isError && m.id !== 'welcome')
validHistory(msgs) ==
  IF msgs = <<>> THEN <<>>
  ELSE IF ~Head(msgs).isError /\ Head(msgs).id # WelcomeId
       THEN <<Head(msgs)>> \o validHistory(Tail(msgs))
       ELSE validHistory(Tail(msgs))

historyForGemini(msgs) ==
  [i \in 1..Len(msgs) |-> [role |-> msgs[i].role, parts |-> <<TextPart(msgs[i].text)>>]]

\* variant: with no turn to restore the mount effect leaves the session alone
MountEffectKeepsSession(s, initialMessages) ==
  IF Len(initialMessages) > 0 /\ Len(validHistory(initialMessages)) > 0
  THEN initializeChat(s, FLASH, historyForGemini(validHistory(initialMessages))).svc
  ELSE s

\* the mount effect: initializeChat with the stored turns; a failure is caught
MountEffect(s, initialMessages) ==
  IF Len(initialMessages) > 0 /\ Len(validHistory(initialMessages)) > 0
  THEN initializeChat(s, FLASH, historyForGemini(validHistory(initialMessages))).svc
  ELSE initializeChat(s, FLASH, <<>>).svc

IdleTask ==
  [pc |-> "idle", mode |-> "", text |-> "", atts |-> <<>>, bot |-> 0, sid |-> 0,
   exported |-> "none", hist |-> <<>>, fullText |-> <<>>, received |-> <<>>,
   chunks |-> 0, content |-> [isParts |-> FALSE, text |-> "", parts |-> <<>>],
   calls |-> 0, err |-> "", opDone |-> FALSE, opUri |-> FALSE, notDone |-> 0,
   checks |-> 0, polls |-> 0, downloads |-> 0, fetched |-> "none",
   key |-> "", orphan |-> FALSE, oabort |-> FALSE, emitted |-> <<>>]

\* variant: every invocation finds the stop flag set
AbortedAlways(t) == TRUE

\* abortControllerRef.current as the invocation reads it: the ref of the
\* component instance that started it
Aborted(t) == IF t.orphan THEN t.oabort ELSE abort

IdleSummary == [pc |-> "idle", id |-> 0, key |-> "", orphan |-> FALSE, count |-> 0]
IdleEnhance == [pc |-> "idle", key |-> "", text |-> "", orphan |-> FALSE]

\* no continuation is queued as a microtask: the awaits of getChatSession
\* (a value that is no promise, or an already settled one) and a rejection
\* on its way to the catch block resume before the next event is handled
Settled ==
  /\ \A k \in DOMAIN tasks : tasks[k].pc \notin {"export", "session", "failed"}
  /\ summ.pc # "failed"
  /\ enh.pc # "failed"

Slots == 1..MaxSends

Free(t) == t.pc = "idle"

\* the slot a new handleSend invocation takes
FreeSlot == CHOOSE k \in Slots : Free(tasks[k]) /\ \A j \in Slots : Free(tasks[j]) => k <= j

CountUser(msgs) == Cardinality({i \in DOMAIN msgs : msgs[i].role = "user"})

Init ==
  /\ apiKey \in Keys
  /\ \E initialMessages \in StoredConversations :
       /\ messages = (IF Len(initialMessages) > 0 THEN initialMessages ELSE <<Welcome>>)
       /\ sessions = <<[id |-> 1, messages |-> <<>>]>>
       /\ LET s == MountEffect([apiKey |-> apiKey, aiClient |-> "", chatSession |-> NoSession,
                                currentModel |-> FLASH, nextSid |-> 1, built |-> NoneBuilt],
                              initialMessages)
          IN /\ aiClient = s.aiClient
             /\ chatSession = s.chatSession
             /\ currentModel = s.currentModel
             /\ nextSid = s.nextSid
             /\ built = s.built
  /\ input = ""
  /\ attachments = <<>>
  /\ isLoading = FALSE
  /\ abort = FALSE
  /\ mode = "chat"
  /\ tasks = [k \in Slots |-> IdleTask]
  /\ historyDropped = FALSE
  /\ summ = IdleSummary
  /\ enh = IdleEnhance
  /\ reading = <<>>
  /\ activeSessionId = 1
  /\ nextId = 2

\* typing into the text box
SetInput(v) ==
  /\ Settled
  /\ input' = v
  /\ UNCHANGED <<svcVars, messages, attachments, isLoading, abort, mode, tasks, historyDropped, sideVars>>

\* the mode buttons
SetMode(m) ==
  /\ Settled
  /\ mode' = m
  /\ UNCHANGED <<svcVars, messages, input, attachments, isLoading, abort, tasks, historyDropped, sideVars>>


\* messages with the turns whose id is `id` rewritten by field
SetText(msgs, id, text) ==
  [i \in DOMAIN msgs |-> IF msgs[i].id = id THEN [msgs[i] EXCEPT !.text = text] ELSE msgs[i]]

SetDone(msgs, id) ==
  [i \in DOMAIN msgs |-> IF msgs[i].id = id THEN [msgs[i] EXCEPT !.isStreaming = FALSE] ELSE msgs[i]]

SetResult(msgs, id, text, atts) ==
  [i \in DOMAIN msgs |->
     IF msgs[i].id = id
     THEN [msgs[i] EXCEPT !.text = text, !.attachments = atts, !.isStreaming = FALSE]
     ELSE msgs[i]]

\* handleFileSelect, the promise of one file: reader.onload resolves the
\* attachment, reader.onerror and the catch in onload resolve null
NullAttachment == [mimeType |-> "null", data |-> "null"]
filePromise(file, readable) == IF file \in readable THEN file ELSE NullAttachment

\* variant: one failing read rejects the whole batch
newAttachmentsAllOrNothing(batch, readable) ==
  IF \A i \in DOMAIN batch : batch[i] \in readable THEN batch ELSE <<>>

\* handleFileSelect: results.filter(item => item !== null) over Promise.all
newAttachments(batch, readable) ==
  SelectSeq([i \in DOMAIN batch |-> filePromise(batch[i], readable)],
            LAMBDA item : item # NullAttachment)

\* the files held by pending reads
RECURSIVE PendingFiles(_)
PendingFiles(rs) == IF rs = <<>> THEN 0 ELSE Len(Head(rs)) + PendingFiles(Tail(rs))

\* handleFileSelect up to the await of Promise.all(filePromises)
handleFileSelect(batch) ==
  /\ Settled
  /\ Len(attachments) + PendingFiles(reading) + Len(batch) <= MaxAtts
  /\ reading' = Append(reading, batch)
  /\ UNCHANGED <<svcVars, uiVars, tasks, historyDropped, summ, enh, appVars>>

\* handleFileSelect after the await: setAttachments(prev => [...prev, ...newAttachments])
FilesRead(i, readable) ==
  /\ Settled
  /\ i \in DOMAIN reading
  /\ attachments' = attachments \o newAttachments(reading[i], readable)
  /\ reading' = [j \in 1..(Len(reading) - 1) |-> IF j < i THEN reading[j] ELSE reading[j + 1]]
  /\ UNCHANGED <<svcVars, messages, input, isLoading, abort, mode, tasks, historyDropped, summ, enh, appVars>>

\* handleStopGeneration: the stop button, shown while isLoading
StopMessages(msgs) ==
  LET lastMsg == msgs[Len(msgs)]
  IN IF lastMsg.role = "model" /\ lastMsg.isStreaming
     THEN [i \in DOMAIN msgs |->
             IF msgs[i].id = lastMsg.id
             THEN [msgs[i] EXCEPT !.isStreaming = FALSE, !.text = Append(msgs[i].text, STOPPED)]
             ELSE msgs[i]]
     ELSE msgs

handleStopGeneration ==
  /\ Settled
  /\ isLoading
  /\ abort' = TRUE
  /\ isLoading' = FALSE
  /\ messages' = StopMessages(messages)
  /\ UNCHANGED <<svcVars, input, attachments, mode, tasks, historyDropped, sideVars>>

\* variant: the guard tests the text without trimming it
SendRejectedUntrimmed(textToSend, atts, loading) ==
  (textToSend = "" /\ Len(atts) = 0) \/ loading

\* the guard of handleSend
SendRejected(textToSend, atts, loading) ==
  (Trim(textToSend) = "" /\ Len(atts) = 0) \/ loading

API_KEY_MISSING == "API Key is missing. Please set your API Key in settings."
VIDEO_FAILED == "Failed to generate video."
DOWNLOAD_FAILED == "Failed to download video."
BACKEND_ERROR == "backend error"

\* variant: every mode takes the streaming branch
RouteAllStream(m) == "stream"

\* the branch of handleSend a mode takes
Route(m) == IF m = "image" THEN "image" ELSE IF m = "video" THEN "video" ELSE "stream"

\* handleSend up to its first suspension: the guard, the user turn and the
\* streaming model turn, and the backend call of the mode up to its first await
handleSend(maxSends) ==
  /\ Settled
  /\ IF SendRejected(input, attachments, isLoading)
     THEN UNCHANGED <<svcVars, uiVars, tasks, historyDropped, sideVars>>
     ELSE /\ CountUser(messages) < maxSends
          /\ \E k \in Slots : Free(tasks[k])
          /\ LET k == FreeSlot
                 userText == Trim(input)
                 userMessage == [id |-> Len(messages) + 1, role |-> "user",
                                 text |-> TextOf(userText), isStreaming |-> FALSE,
                                 isError |-> FALSE, attachments |-> attachments]
                 botMessageId == Len(messages) + 2
                 botMessage == [id |-> botMessageId, role |-> "model", text |-> <<>>,
                                isStreaming |-> TRUE, isError |-> FALSE, attachments |-> <<>>]
                 appended == messages \o <<userMessage, botMessage>>
                 t0 == [IdleTask EXCEPT !.mode = mode, !.text = userText,
                                        !.atts = attachments, !.bot = botMessageId]
             IN /\ abort' = FALSE
                /\ input' = ""
                /\ attachments' = <<>>
                /\ isLoading' = TRUE
                /\ UNCHANGED <<mode, sideVars>>
                /\ CASE Route(mode) = "image" ->
                          LET c == getAiClient(Svc)
                          IN /\ messages' = appended
                             /\ SetSvc(c.svc)
                             /\ UNCHANGED historyDropped
                             /\ tasks' = [tasks EXCEPT ![k] =
                                  IF c.ok
                                  THEN [t0 EXCEPT !.pc = "image", !.calls = 1,
                                                  !.key = c.svc.aiClient]
                                  ELSE [t0 EXCEPT !.pc = "failed", !.err = API_KEY_MISSING]]
                     [] Route(mode) = "video" ->
                          /\ messages' = SetText(appended, botMessageId, <<"Generating video with Veo... This may take a minute.">>)
                          /\ built' = [built EXCEPT !.veo = @ + 1]
                          /\ UNCHANGED <<apiKey, aiClient, chatSession, currentModel, nextSid, historyDropped>>
                          /\ tasks' = [tasks EXCEPT ![k] = [t0 EXCEPT !.pc = "videoCreate", !.calls = 1,
                                                                           !.key = apiKey]]
                     [] OTHER ->
                          \E exportOk \in BOOLEAN :
                            LET r == getChatSessionCall(Svc, ModelFor(mode), exportOk)
                            IN /\ messages' = appended
                               /\ SetSvc(r.svc)
                               /\ historyDropped' = (historyDropped \/ (r.kind = "export" /\ ~exportOk))
                               /\ tasks' = [tasks EXCEPT ![k] =
                                    CASE r.kind = "export" ->
                                           [t0 EXCEPT !.pc = "export", !.hist = r.hist,
                                                      !.exported = IF exportOk THEN "ok" ELSE "failed"]
                                      [] r.kind = "session" ->
                                           [t0 EXCEPT !.pc = "session", !.sid = r.sid,
                                                      !.key = r.svc.chatSession.key]
                                      [] OTHER ->
                                           [t0 EXCEPT !.pc = "failed", !.err = API_KEY_MISSING]]

\* getChatSession resumes after getHistory: the new session is created
ResumeGetChatSession(k) ==
  /\ tasks[k].pc = "export"
  /\ LET t == tasks[k]
         r == getChatSessionResume(Svc, ModelFor(t.mode), t.exported = "ok", t.hist)
     IN /\ SetSvc(r.svc)
        /\ tasks' = [tasks EXCEPT ![k] =
             IF r.ok
             THEN [t EXCEPT !.pc = "session", !.sid = r.svc.chatSession.id,
                            !.key = r.svc.chatSession.key]
             ELSE [t EXCEPT !.pc = "failed", !.err = API_KEY_MISSING]]
  /\ UNCHANGED <<uiVars, historyDropped, sideVars>>

\* sendMessageStream after getChatSession: the one call of session.sendMessageStream
IssueStream(k) ==
  /\ tasks[k].pc = "session"
  /\ tasks' = [tasks EXCEPT ![k] =
       [@ EXCEPT !.pc = "streaming",
                 !.content = MessageContent(tasks[k].text, tasks[k].atts),
                 !.calls = @ + 1]]
  /\ UNCHANGED <<svcVars, uiVars, historyDropped, sideVars>>

\* variant: the chunk text is put in front of the text so far
AccumulateInFront(fullText, chunkText) == <<chunkText>> \o fullText

\* fullText += chunkText
Accumulate(fullText, chunkText) == fullText \o <<chunkText>>

\* the text of the i-th chunk of a stream, when it carries text
ChunkText(i) == CASE i = 1 -> "x" [] i = 2 -> "y" [] i = 3 -> "z" [] OTHER -> "w"

\* one turn of the for-await loop of handleSend; the chunk's text is
\* chunkText, "" for a chunk without text
ConsumeChunk(k, chunkText) ==
  /\ Settled
  /\ tasks[k].pc = "streaming"
  /\ tasks[k].chunks < MaxChunks
  /\ UNCHANGED <<svcVars, input, attachments, isLoading, abort, mode, historyDropped, sideVars>>
  /\ IF Aborted(tasks[k])
     THEN \* break, then isStreaming: false; the finally block does nothing
          /\ messages' = (IF tasks[k].orphan THEN messages ELSE SetDone(messages, tasks[k].bot))
          /\ tasks' = [tasks EXCEPT ![k] = IdleTask]
     ELSE LET t == tasks[k]
              fullText == IF chunkText # "" THEN Accumulate(t.fullText, chunkText) ELSE t.fullText
          IN /\ messages' = (IF chunkText # "" /\ ~t.orphan
                              THEN SetText(messages, t.bot, fullText) ELSE messages)
             /\ tasks' = [tasks EXCEPT ![k] =
                  [t EXCEPT !.fullText = fullText, !.chunks = t.chunks + 1,
                            !.emitted = Append(t.emitted, chunkText),
                            !.received = IF chunkText # "" THEN Append(t.received, chunkText)
                                         ELSE t.received]]

StreamChunk(k, hasText) ==
  ConsumeChunk(k, IF hasText THEN ChunkText(tasks[k].chunks + 1) ELSE "")

\* the stream ends: the Chat object records the turn, the loop is left
StreamEnd(k) ==
  /\ Settled
  /\ tasks[k].pc = "streaming"
  /\ LET t == tasks[k]
     IN /\ chatSession' =
             (IF chatSession.id = t.sid
              THEN [chatSession EXCEPT !.history =
                      @ \o <<UserContent(t.content), ModelContent(t.received)>>]
              ELSE chatSession)
        /\ messages' = (IF t.orphan THEN messages ELSE SetDone(messages, t.bot))
        /\ isLoading' = (IF Aborted(t) \/ t.orphan THEN isLoading ELSE FALSE)
        /\ tasks' = [tasks EXCEPT ![k] = IdleTask]
  /\ UNCHANGED <<apiKey, aiClient, currentModel, nextSid, built, input, attachments, abort, mode, historyDropped, sideVars>>

\* a backend call of the task is rejected
BackendFail(k) ==
  /\ Settled
  /\ tasks[k].pc \in {"streaming", "image", "videoCreate", "videoPoll", "videoFetch"}
  /\ tasks' = [tasks EXCEPT ![k] = [@ EXCEPT !.pc = "failed", !.err = BACKEND_ERROR]]
  /\ UNCHANGED <<svcVars, uiVars, historyDropped, sideVars>>

\* the error text the catch block shows
ErrorMessage(err) ==
  IF err = API_KEY_MISSING
  THEN "Missing API Key. Please add your API_KEY to the environment variables."
  ELSE err

CatchMessages(msgs, err) ==
  LET lastMsg == msgs[Len(msgs)]
  IN IF lastMsg.role = "model"
     THEN [i \in DOMAIN msgs |->
             IF msgs[i].id = lastMsg.id
             THEN [msgs[i] EXCEPT !.isStreaming = FALSE, !.isError = TRUE,
                                  !.text = IF msgs[i].text # <<>>
                                           THEN msgs[i].text \o <<"[Error]", ErrorMessage(err)>>
                                           ELSE <<ErrorMessage(err)>>]
             ELSE msgs[i]]
     ELSE msgs

\* the catch and finally blocks of handleSend
HandleSendCatch(k) ==
  /\ tasks[k].pc = "failed"
  /\ tasks' = [tasks EXCEPT ![k] = IdleTask]
  /\ IF Aborted(tasks[k]) \/ tasks[k].orphan
     THEN UNCHANGED <<messages, isLoading>>
     ELSE /\ messages' = CatchMessages(messages, tasks[k].err)
          /\ isLoading' = FALSE
  /\ UNCHANGED <<svcVars, input, attachments, abort, mode, historyDropped, sideVars>>


\* the candidate parts an image response carries
ImageResponses ==
  {<<>>,
   <<[kind |-> "inlineData", text |-> "", mimeType |-> "image/png", data |-> "g1"]>>,
   <<[kind |-> "text", text |-> "t", mimeType |-> "", data |-> ""]>>,
   <<[kind |-> "text", text |-> "t", mimeType |-> "", data |-> ""],
     [kind |-> "inlineData", text |-> "", mimeType |-> "image/png", data |-> "g1"]>>}

RECURSIVE imageAttachments(_)
\* generateImageContent: the inline parts, as attachments
imageAttachments(parts) ==
  IF parts = <<>> THEN <<>>
  ELSE IF Head(parts).kind = "inlineData"
       THEN <<[mimeType |-> Head(parts).mimeType, data |-> Head(parts).data]>>
            \o imageAttachments(Tail(parts))
       ELSE imageAttachments(Tail(parts))

RECURSIVE imageText(_)
\* generateImageContent: the text parts, concatenated
imageText(parts) ==
  IF parts = <<>> THEN <<>>
  ELSE IF Head(parts).kind # "inlineData" /\ Head(parts).text # ""
       THEN <<Head(parts).text>> \o imageText(Tail(parts))
       ELSE imageText(Tail(parts))

\* handleSend after generateImageContent returned
ImageDone(k, parts) ==
  /\ Settled
  /\ tasks[k].pc = "image"
  /\ tasks' = [tasks EXCEPT ![k] = IdleTask]
  /\ IF Aborted(tasks[k]) \/ tasks[k].orphan
     THEN UNCHANGED <<messages, isLoading>>
     ELSE /\ messages' = SetResult(messages, tasks[k].bot,
                                   IF imageText(parts) # <<>> THEN imageText(parts)
                                   ELSE <<"Image generated successfully.">>,
                                   imageAttachments(parts))
          /\ isLoading' = FALSE
  /\ UNCHANGED <<svcVars, input, attachments, abort, mode, historyDropped, sideVars>>

\* variant: the loop polls once before it tests the operation (do-while)
videoLoopPollFirst(t, done, hasUri) ==
  LET seen == [t EXCEPT !.opDone = done, !.opUri = done /\ hasUri, !.checks = @ + 1,
                        !.notDone = IF done THEN @ ELSE @ + 1]
  IN IF ~done \/ t.checks = 0
     THEN [seen EXCEPT !.pc = "videoPoll", !.polls = @ + 1, !.opDone = FALSE, !.opUri = FALSE]
     ELSE IF ~hasUri
          THEN [seen EXCEPT !.pc = "failed", !.err = VIDEO_FAILED]
          ELSE [seen EXCEPT !.pc = "videoFetch", !.downloads = @ + 1]

\* variant: the uri of the completed operation is fetched untested
videoLoopNoUriTest(t, done, hasUri) ==
  LET seen == [t EXCEPT !.opDone = done, !.opUri = done /\ hasUri, !.checks = @ + 1,
                        !.notDone = IF done THEN @ ELSE @ + 1]
  IN IF ~done
     THEN [seen EXCEPT !.pc = "videoPoll", !.polls = @ + 1]
     ELSE [seen EXCEPT !.pc = "videoFetch", !.downloads = @ + 1]

\* generateVideoContent: the while loop tests the operation that arrived
\* and polls again, or the loop is left: the uri is tested and fetched
videoLoop(t, done, hasUri) ==
  LET seen == [t EXCEPT !.opDone = done, !.opUri = done /\ hasUri, !.checks = @ + 1,
                        !.notDone = IF done THEN @ ELSE @ + 1]
  IN IF ~done
     THEN [seen EXCEPT !.pc = "videoPoll", !.polls = @ + 1]
     ELSE IF ~hasUri
          THEN [seen EXCEPT !.pc = "failed", !.err = VIDEO_FAILED]
          ELSE [seen EXCEPT !.pc = "videoFetch", !.downloads = @ + 1]

\* an operation arrives, from generateVideos or from getVideosOperation
VideoOperation(k, done, hasUri) ==
  /\ Settled
  /\ tasks[k].pc \in {"videoCreate", "videoPoll"}
  /\ ~done => tasks[k].notDone < MaxPolls
  /\ tasks' = [tasks EXCEPT ![k] = videoLoop(tasks[k], done, hasUri)]
  /\ UNCHANGED <<svcVars, uiVars, historyDropped, sideVars>>

\* generateVideoContent: the fetch of the video answers
VideoFetched(k, ok) ==
  /\ Settled
  /\ tasks[k].pc = "videoFetch"
  /\ UNCHANGED <<svcVars, input, attachments, abort, mode, historyDropped, sideVars>>
  /\ IF ~ok
     THEN /\ tasks' = [tasks EXCEPT ![k] = [@ EXCEPT !.pc = "failed", !.err = DOWNLOAD_FAILED,
                                                    !.fetched = "bad"]]
          /\ UNCHANGED <<messages, isLoading>>
     ELSE /\ tasks' = [tasks EXCEPT ![k] = IdleTask]
          /\ IF Aborted(tasks[k]) \/ tasks[k].orphan
             THEN UNCHANGED <<messages, isLoading>>
             ELSE /\ messages' = SetResult(messages, tasks[k].bot,
                                           <<"Video generated successfully.">>,
                                           <<[mimeType |-> "video/mp4", data |-> "v1"]>>)
                  /\ isLoading' = FALSE

\* the keys the user saves in the key dialog (trimmed, not empty)
NewKeys == {"k1", "k2"}

\* every pending invocation of the unmounted instance keeps its own ref
\* and state setters, which no longer reach the mounted instance
Orphaned(t) == IF t.pc # "idle" /\ ~t.orphan THEN [t EXCEPT !.orphan = TRUE, !.oabort = abort] ELSE t

\* variant: setStoredApiKey alone, the chat interface is not remounted
SaveKeyNoRemount(key) ==
  /\ Settled
  /\ apiKey' = key
  /\ aiClient' = ""
  /\ built' = NoneBuilt
  /\ UNCHANGED <<chatSession, currentModel, nextSid, uiVars, tasks, historyDropped, sideVars>>

\* ApiKeyModal.handleSave: setStoredApiKey, then onSave bumps apiKeyVersion,
\* which remounts ChatInterface on the stored messages of the session
SaveKey(key) ==
  /\ Settled
  /\ nextSid <= MaxSid
  /\ LET cleared == [Svc EXCEPT !.apiKey = key, !.aiClient = "", !.built = NoneBuilt]
     IN SetSvc(MountEffect(cleared, messages))
  /\ messages' = messages
  /\ input' = ""
  /\ attachments' = <<>>
  /\ isLoading' = FALSE
  /\ abort' = FALSE
  /\ mode' = "chat"
  /\ tasks' = [k \in Slots |-> Orphaned(tasks[k])]
  /\ summ' = (IF summ.pc # "idle" THEN [summ EXCEPT !.orphan = TRUE] ELSE summ)
  /\ enh' = (IF enh.pc # "idle" THEN [enh EXCEPT !.orphan = TRUE] ELSE enh)
  /\ reading' = <<>>
  /\ UNCHANGED <<historyDropped, appVars>>

\* ------------------------------------------------------------- App
SessionIds(list) == {list[i].id : i \in DOMAIN list}

\* the session list once the onUpdateMessages effect of the mounted
\* ChatInterface has run: updateActiveSession(messages)
storedSessions ==
  [i \in DOMAIN sessions |->
     IF sessions[i].id = activeSessionId
     THEN [sessions[i] EXCEPT !.messages = messages]
     ELSE sessions[i]]

App == [sessions |-> storedSessions, activeSessionId |-> activeSessionId, nextId |-> nextId]

SetApp(app) ==
  /\ sessions' = [i \in DOMAIN app.sessions |->
                    IF app.sessions[i].id = app.activeSessionId
                    THEN [app.sessions[i] EXCEPT !.messages = <<>>]
                    ELSE app.sessions[i]]
  /\ activeSessionId' = app.activeSessionId
  /\ nextId' = app.nextId

\* activeSession?.messages || []
initialMessagesOf(app) ==
  IF app.activeSessionId \in SessionIds(app.sessions)
  THEN LET i == CHOOSE i \in DOMAIN app.sessions : app.sessions[i].id = app.activeSessionId
       IN app.sessions[i].messages
  ELSE <<>>

\* createNewChat: a session without messages, put first and made active
newChat(app) ==
  [sessions |-> <<[id |-> app.nextId, messages |-> <<>>]>> \o app.sessions,
   activeSessionId |-> app.nextId,
   nextId |-> app.nextId + 1]

\* variant: the effect creates a session when none is left and does nothing else
sessionEffectCreateOnly(app) ==
  IF Len(app.sessions) = 0 THEN newChat(app) ELSE app

\* the effect on [user, sessions.length], with a user logged in
sessionEffect(app) ==
  IF Len(app.sessions) = 0
  THEN newChat(app)
  ELSE IF app.activeSessionId = 0
       THEN [app EXCEPT !.activeSessionId = app.sessions[1].id]
       ELSE app

\* the key of ChatInterface changed: the instance is unmounted and a new one
\* mounts on initialMessages; s is the service state its mount effect finds
Remount(s, initialMessages) ==
  /\ SetSvc(MountEffect(s, initialMessages))
  /\ messages' = (IF Len(initialMessages) > 0 THEN initialMessages ELSE <<Welcome>>)
  /\ input' = ""
  /\ attachments' = <<>>
  /\ isLoading' = FALSE
  /\ abort' = FALSE
  /\ mode' = "chat"
  /\ tasks' = [k \in Slots |-> Orphaned(tasks[k])]
  /\ summ' = (IF summ.pc # "idle" THEN [summ EXCEPT !.orphan = TRUE] ELSE summ)
  /\ enh' = (IF enh.pc # "idle" THEN [enh EXCEPT !.orphan = TRUE] ELSE enh)
  /\ reading' = <<>>
  /\ UNCHANGED historyDropped

\* createNewChat (the New Chat button), then the session effect
createNewChat ==
  /\ Settled
  /\ nextId <= MaxSessions
  /\ nextSid <= MaxMounts
  /\ LET app == sessionEffect(newChat(App))
     IN /\ SetApp(app)
        /\ Remount(Svc, initialMessagesOf(app))

\* clearChat of ChatInterface: App passes onNewChat, so it is createNewChat
clearChat == createNewChat

\* a click on a session of the list: setActiveSessionId(session.id)
selectSession(id) ==
  /\ Settled
  /\ id \in SessionIds(sessions)
  /\ IF id = activeSessionId
     THEN UNCHANGED vars
     ELSE /\ nextSid <= MaxMounts
          /\ LET app == [App EXCEPT !.activeSessionId = id]
             IN /\ SetApp(app)
                /\ Remount(Svc, initialMessagesOf(app))

\* deleteSession, then the session effect; when the active session goes,
\* ChatInterface is mounted once with no session and once more on the
\* session the effect made active
deleteSession(id) ==
  /\ Settled
  /\ id \in SessionIds(sessions)
  /\ LET filtered == SelectSeq(storedSessions, LAMBDA x : x.id # id)
         deleted == [App EXCEPT !.sessions = filtered,
                                !.activeSessionId = IF activeSessionId = id THEN 0 ELSE @]
         app == sessionEffect(deleted)
     IN IF activeSessionId # id
        THEN /\ SetApp(app)
             /\ UNCHANGED <<svcVars, uiVars, tasks, historyDropped, summ, enh, reading>>
        ELSE /\ nextSid + 1 <= MaxMounts
             /\ Len(filtered) = 0 => nextId <= MaxSessions
             /\ SetApp(app)
             /\ Remount(MountEffect(Svc, initialMessagesOf(deleted)), initialMessagesOf(app))

\* handleSummarizeChat up to the await of generateSummary
handleSummarizeChat ==
  /\ Settled
  /\ IF Len(messages) = 0 \/ isLoading
     THEN UNCHANGED vars
     ELSE /\ summ.pc = "idle"
          /\ summ.count < MaxSummaries
          /\ LET summaryId == Len(messages) + 1
                 c == getAiClient(Svc)
             IN /\ isLoading' = TRUE
                /\ messages' = Append(messages,
                      [id |-> summaryId, role |-> "model", text |-> <<>>, isStreaming |-> TRUE,
                       isError |-> FALSE, attachments |-> <<>>])
                /\ SetSvc(c.svc)
                /\ summ' = [pc |-> IF c.ok THEN "calling" ELSE "failed", id |-> summaryId,
                            key |-> c.svc.aiClient, orphan |-> FALSE, count |-> summ.count + 1]
          /\ UNCHANGED <<input, attachments, abort, mode, tasks, historyDropped, enh, reading, appVars>>

SummaryMessages(msgs, id, ok) ==
  [i \in DOMAIN msgs |->
     IF msgs[i].id = id
     THEN IF ok
          THEN [msgs[i] EXCEPT !.text = <<"**Conversation Summary**", "s">>, !.isStreaming = FALSE]
          ELSE [msgs[i] EXCEPT !.text = <<"Sorry, I encountered an error while summarizing the chat.">>,
                               !.isStreaming = FALSE, !.isError = TRUE]
     ELSE msgs[i]]

\* generateSummary answers or fails: the try, catch and finally blocks
SummaryDone(ok) ==
  /\ summ.pc \in {"calling", "failed"}
  /\ summ.pc = "failed" => ~ok
  /\ summ.pc = "calling" => Settled
  /\ summ' = [IdleSummary EXCEPT !.count = summ.count]
  /\ IF summ.orphan
     THEN UNCHANGED <<messages, isLoading>>
     ELSE /\ messages' = SummaryMessages(messages, summ.id, ok)
          /\ isLoading' = FALSE
  /\ UNCHANGED <<svcVars, input, attachments, abort, mode, tasks, historyDropped, enh, reading, appVars>>

\* handleEnhancePrompt up to the await of enhancePrompt
handleEnhancePrompt ==
  /\ Settled
  /\ IF Trim(input) = "" \/ enh.pc # "idle"
     THEN UNCHANGED vars
     ELSE LET c == getAiClient(Svc)
          IN /\ SetSvc(c.svc)
             /\ enh' = [pc |-> IF c.ok THEN "calling" ELSE "failed", key |-> c.svc.aiClient,
                        text |-> input, orphan |-> FALSE]
             /\ UNCHANGED <<uiVars, tasks, historyDropped, summ, reading, appVars>>

\* enhancePrompt answers with a text ("enhanced"), with no text ("empty"),
\* or fails
EnhanceDone(outcome) ==
  /\ enh.pc \in {"calling", "failed"}
  /\ enh.pc = "failed" => outcome = "failed"
  /\ enh.pc = "calling" => Settled
  /\ enh' = IdleEnhance
  /\ input' = (IF enh.orphan \/ outcome = "failed" THEN input
               ELSE IF outcome = "enhanced" THEN "e" ELSE enh.text)
  /\ UNCHANGED <<svcVars, messages, attachments, isLoading, abort, mode, tasks, historyDropped, summ, reading, appVars>>

Next ==
  \/ \E v \in Inputs : SetInput(v)
  \/ \E m \in Modes : SetMode(m)
  \/ handleSend(MaxSends)
  \/ handleStopGeneration
  \/ \E k \in Slots : ResumeGetChatSession(k)
  \/ \E k \in Slots : IssueStream(k)
  \/ \E k \in Slots : \E hasText \in BOOLEAN : StreamChunk(k, hasText)
  \/ \E k \in Slots : StreamEnd(k)
  \/ \E k \in Slots : BackendFail(k)
  \/ \E k \in Slots : HandleSendCatch(k)
  \/ \E k \in Slots : \E parts \in ImageResponses : ImageDone(k, parts)
  \/ \E k \in Slots : \E done \in BOOLEAN : \E hasUri \in BOOLEAN : VideoOperation(k, done, hasUri)
  \/ \E k \in Slots : \E ok \in BOOLEAN : VideoFetched(k, ok)

Spec == Init /\ [][Next]_vars

\* a text conversation: the user sends in chat and code mode, waits for
\* each answer, attaches nothing; every chunk carries text
NextSeq ==
  \/ \E v \in Inputs : SetInput(v)
  \/ \E m \in {"chat", "code"} : SetMode(m)
  \/ handleSend(MaxSeqSends)
  \/ \E k \in Slots : ResumeGetChatSession(k)
  \/ \E k \in Slots : IssueStream(k)
  \/ \E k \in Slots : StreamChunk(k, TRUE)
  \/ \E k \in Slots : StreamEnd(k)
  \/ \E k \in Slots : BackendFail(k)
  \/ \E k \in Slots : HandleSendCatch(k)

SpecSeq == Init /\ [][NextSeq]_vars

\* the composer: the user types, picks a mode, attaches files and sends
\* one message; every chunk carries text
NextAttach ==
  \/ \E v \in Inputs : SetInput(v)
  \/ \E m \in Modes : SetMode(m)
  \/ \E batch \in Batches : handleFileSelect(batch)
  \/ \E i \in 1..MaxAtts : \E readable \in SUBSET Files : FilesRead(i, readable)
  \/ handleSend(MaxAttSends)
  \/ handleStopGeneration
  \/ \E k \in Slots : ResumeGetChatSession(k)
  \/ \E k \in Slots : IssueStream(k)
  \/ \E k \in Slots : StreamChunk(k, TRUE)
  \/ \E k \in Slots : StreamEnd(k)
  \/ \E k \in Slots : BackendFail(k)
  \/ \E k \in Slots : HandleSendCatch(k)
  \/ \E k \in Slots : \E parts \in ImageResponses : ImageDone(k, parts)
  \/ \E k \in Slots : \E done \in BOOLEAN : \E hasUri \in BOOLEAN : VideoOperation(k, done, hasUri)
  \/ \E k \in Slots : \E ok \in BOOLEAN : VideoFetched(k, ok)

SpecAttach == Init /\ [][NextAttach]_vars

\* video generation: the user sends in video mode and may stop
NextVideo ==
  \/ \E v \in Inputs : SetInput(v)
  \/ SetMode("video")
  \/ (mode = "video" /\ handleSend(MaxSends))
  \/ handleStopGeneration
  \/ \E k \in Slots : BackendFail(k)
  \/ \E k \in Slots : HandleSendCatch(k)
  \/ \E k \in Slots : \E done \in BOOLEAN : \E hasUri \in BOOLEAN : VideoOperation(k, done, hasUri)
  \/ \E k \in Slots : \E ok \in BOOLEAN : VideoFetched(k, ok)

SpecVideo == Init /\ [][NextVideo]_vars

\* the key dialog: the user sends, summarizes, enhances the prompt and
\* saves a key at any moment; every chunk carries text
NextKey ==
  \/ SetInput(" a ")
  \/ \E m \in Modes : SetMode(m)
  \/ handleSend(MaxKeySends)
  \/ \E key \in NewKeys : SaveKey(key)
  \/ handleSummarizeChat
  \/ \E ok \in BOOLEAN : SummaryDone(ok)
  \/ handleEnhancePrompt
  \/ \E outcome \in {"enhanced", "empty", "failed"} : EnhanceDone(outcome)
  \/ \E k \in Slots : ResumeGetChatSession(k)
  \/ \E k \in Slots : IssueStream(k)
  \/ \E k \in Slots : StreamChunk(k, TRUE)
  \/ \E k \in Slots : StreamEnd(k)
  \/ \E k \in Slots : BackendFail(k)
  \/ \E k \in Slots : HandleSendCatch(k)
  \/ \E k \in Slots : \E parts \in ImageResponses : ImageDone(k, parts)
  \/ \E k \in Slots : \E done \in BOOLEAN : \E hasUri \in BOOLEAN : VideoOperation(k, done, hasUri)
  \/ \E k \in Slots : \E ok \in BOOLEAN : VideoFetched(k, ok)

SpecKey == Init /\ [][NextKey]_vars

\* streaming: text sends in chat and code mode with the stop button in
\* use; a chunk carries text or none
NextStream ==
  \/ SetInput(" a ")
  \/ \E m \in {"chat", "code"} : SetMode(m)
  \/ handleSend(MaxSends)
  \/ handleStopGeneration
  \/ \E k \in Slots : ResumeGetChatSession(k)
  \/ \E k \in Slots : IssueStream(k)
  \/ \E k \in Slots : \E hasText \in BOOLEAN : StreamChunk(k, hasText)
  \/ \E k \in Slots : StreamEnd(k)
  \/ \E k \in Slots : BackendFail(k)
  \/ \E k \in Slots : HandleSendCatch(k)

SpecStream == Init /\ [][NextStream]_vars

\* a text conversation in which the user stops answers and sends again;
\* every chunk carries text
NextRetry ==
  \/ SetInput(" a ")
  \/ \E m \in {"chat", "code"} : SetMode(m)
  \/ handleSend(MaxSeqSends)
  \/ handleStopGeneration
  \/ \E k \in Slots : ResumeGetChatSession(k)
  \/ \E k \in Slots : IssueStream(k)
  \/ \E k \in Slots : StreamChunk(k, TRUE)
  \/ \E k \in Slots : StreamEnd(k)
  \/ \E k \in Slots : BackendFail(k)
  \/ \E k \in Slots : HandleSendCatch(k)

SpecRetry == Init /\ [][NextRetry]_vars

\* ------------------------------------------------------------- claims

\* C1: on a model switch whose getHistory succeeds, the turns getHistory
\* returned are the old session's history, and the new session is created
\* with exactly these turns (same count, content and order), bound to the
\* requested model.
C1_SwitchKeepsHistory ==
  [][\A k \in Slots :
       /\ (tasks[k].pc = "idle" /\ tasks'[k].pc = "export" /\ tasks'[k].exported = "ok")
            => tasks'[k].hist = chatSession.history
       /\ (tasks[k].pc = "export" /\ tasks[k].exported = "ok" /\ tasks'[k].pc # "export")
            => /\ tasks'[k].pc = "session"
               /\ chatSession'.id = tasks'[k].sid
               /\ chatSession'.id # chatSession.id
               /\ chatSession'.history = tasks[k].hist
               /\ chatSession'.model = ModelFor(tasks[k].mode)
               /\ currentModel' = ModelFor(tasks[k].mode)]_vars

\* C1 witness: the second switch of a run, back to the general model, has
\* created a session with the four exported turns
C1_Witness ==
  \E k \in Slots :
    /\ tasks[k].pc = "session"
    /\ tasks[k].exported = "ok"
    /\ Len(tasks[k].hist) >= 4
    /\ chatSession.history = tasks[k].hist
    /\ chatSession.model = FLASH
    /\ chatSession.id >= 3

\* C2: when getHistory fails on a model switch, getChatSession still yields
\* a session on the requested model, with empty history; getChatSession
\* fails only when there is neither a client nor a credential.
C2_ExportFailureDegrades ==
  [][\A k \in Slots :
       /\ (tasks[k].pc = "export" /\ tasks[k].exported = "failed" /\ tasks'[k].pc # "export")
            => /\ tasks'[k].pc = "session"
               /\ chatSession'.id = tasks'[k].sid
               /\ chatSession'.id # chatSession.id
               /\ chatSession'.history = <<>>
               /\ chatSession'.model = ModelFor(tasks[k].mode)
       /\ (tasks[k].pc \in {"idle", "export"} /\ tasks'[k].pc = "failed"
           /\ tasks'[k].mode \in {"chat", "code"})
            => (apiKey = "" /\ aiClient = "")]_vars

\* C2 witness: a switch to the code model after a failed export, on a
\* conversation that had turns to lose
C2_Witness ==
  \E k \in Slots :
    /\ tasks[k].pc = "session"
    /\ tasks[k].exported = "failed"
    /\ chatSession.history = <<>>
    /\ chatSession.model = PRO
    /\ chatSession.id = tasks[k].sid
    /\ Len(messages) >= 5

\* C3: getChatSession for the model of the live session returns that
\* session: no session is created, the session, its history and
\* currentModel are unchanged.
C3_SameModelIdempotent ==
  [][\A k \in Slots :
       (/\ tasks[k].pc = "idle"
        /\ tasks'[k].pc # "idle"
        /\ tasks'[k].mode \in {"chat", "code"}
        /\ chatSession.id # 0
        /\ currentModel = ModelFor(tasks'[k].mode))
       => /\ tasks'[k].pc = "session"
          /\ tasks'[k].sid = chatSession.id
          /\ chatSession' = chatSession
          /\ currentModel' = currentModel
          /\ nextSid' = nextSid]_vars

\* C3 witness: a repeated call for the same model, on a session that has
\* already recorded an exchange of an earlier call
C3_Witness ==
  \E k \in Slots :
    /\ tasks[k].pc = "session"
    /\ tasks[k].exported = "none"
    /\ tasks[k].sid = chatSession.id
    /\ chatSession.id = 1
    /\ Len(chatSession.history) >= 4

\* C4: a live session's model and system instruction are a matched pair,
\* and currentModel is the model the live session was created with.
C4_ModelInstructionPair ==
  chatSession.id # 0 =>
    /\ (chatSession.model = PRO => chatSession.systemInstruction = CODE_SYSTEM_INSTRUCTION)
    /\ (chatSession.model # PRO => chatSession.systemInstruction = DEFAULT_SYSTEM_INSTRUCTION)
    /\ currentModel = chatSession.model

\* C4 witness: a live session on the code model
C4_Witness ==
  /\ chatSession.id # 0
  /\ chatSession.model = PRO
  /\ chatSession.systemInstruction = CODE_SYSTEM_INSTRUCTION

\* the turn of the message list with the given id
TurnOf(msgs, id) == msgs[CHOOSE i \in DOMAIN msgs : msgs[i].id = id]

IsStopped(m) == m.role = "model" /\ Len(m.text) > 0 /\ m.text[Len(m.text)] = STOPPED

C6_EmptySendIsNoOp ==
  [][(Trim(input) = "" /\ Len(attachments) = 0)
     => /\ Len(messages') = Len(messages)
        /\ \A k \in Slots : tasks[k].pc = "idle" => tasks'[k].pc = "idle"
        /\ \A k \in Slots : tasks'[k].calls >= tasks[k].calls => tasks'[k].calls = tasks[k].calls
                                                                 \/ tasks[k].pc # "idle"
        /\ ~isLoading => ~isLoading'
        /\ abort => abort'
        /\ handleSend(MaxAttSends) => UNCHANGED vars]_vars

\* C6 witness: a whitespace-only text, no attachment, nothing in flight, in
\* a mode other than chat
C6_Witness ==
  /\ input = " "
  /\ attachments = <<>>
  /\ ~isLoading
  /\ mode = "image"
  /\ \A k \in Slots : tasks[k].pc = "idle"

\* the parts sendMessageStream is to send for a text and its attachments
C7_ExpectedParts(text, atts) ==
  (IF text # "" THEN <<[kind |-> "text", text |-> <<text>>, mimeType |-> "", data |-> ""]>> ELSE <<>>)
  \o [i \in 1..Len(atts) |->
        [kind |-> "inlineData", text |-> <<>>, mimeType |-> atts[i].mimeType, data |-> atts[i].data]]

\* C7: a chat/code send with n >= 1 attachments issues exactly one streaming
\* call, whose payload is a parts list: one text part first iff the trimmed
\* text is non-empty, then the n attachments in order, each with its MIME
\* type and data.
C7_AttachmentPayload ==
  \A k \in Slots :
    LET t == tasks[k]
    IN /\ (t.pc \in {"export", "session"} /\ t.mode \in {"chat", "code"}) => t.calls = 0
       /\ (t.pc = "streaming" /\ Len(t.atts) >= 1)
            => /\ t.calls = 1
               /\ t.content.isParts
               /\ t.content.parts = C7_ExpectedParts(t.text, t.atts)
               /\ Len(t.content.parts) = Len(t.atts) + (IF t.text # "" THEN 1 ELSE 0)

\* C7 witness: a send of one attachment and no text is streaming
C7_Witness ==
  \E k \in Slots :
    /\ tasks[k].pc = "streaming"
    /\ tasks[k].text = ""
    /\ Len(tasks[k].atts) = 1
    /\ Len(tasks[k].content.parts) = 1
    /\ tasks[k].content.parts[1].kind = "inlineData"

\* C8: a video job that reports done=false N times and then done=true with
\* a uri has had exactly N+1 status checks and exactly one download when the
\* fetch is in flight, and no download before.
C8_VideoPolling ==
  \A k \in Slots :
    LET t == tasks[k]
    IN /\ t.pc = "videoFetch" => (t.checks = t.notDone + 1 /\ t.downloads = 1 /\ t.polls = t.notDone)
       /\ t.pc \in {"videoCreate", "videoPoll"} => (t.downloads = 0 /\ t.checks = t.notDone)

\* C8 witness: the job was not done MaxPolls times, then done with a uri
C8_Witness ==
  \E k \in Slots :
    /\ tasks[k].pc = "videoFetch"
    /\ tasks[k].notDone = MaxPolls
    /\ tasks[k].checks = MaxPolls + 1
    /\ tasks[k].downloads = 1

\* C9: a completed video job without uri fails with the video-generation
\* error and no download; a fetch that is not ok fails with the
\* video-download error; a failed generation hands no result to the turn.
C9_VideoFailures ==
  /\ [](\A k \in Slots :
          LET t == tasks[k]
          IN /\ (t.opDone /\ ~t.opUri) => (t.pc = "failed" /\ t.err = VIDEO_FAILED /\ t.downloads = 0)
             /\ t.fetched = "bad" => (t.pc = "failed" /\ t.err = DOWNLOAD_FAILED))
  /\ [][\A k \in Slots :
          (tasks[k].pc = "failed" /\ tasks[k].mode = "video")
          => /\ TurnOf(messages', tasks[k].bot).attachments = <<>>
             /\ TurnOf(messages', tasks[k].bot).text # <<"Video generated successfully.">>]_vars

\* C9 witness: a job completed without uri after one poll
C9_Witness ==
  \E k \in Slots :
    /\ tasks[k].pc = "failed"
    /\ tasks[k].err = VIDEO_FAILED
    /\ tasks[k].opDone /\ ~tasks[k].opUri
    /\ tasks[k].polls >= 1

\* the conversation is at rest: every send has completed without error
AtRest ==
  /\ \A k \in Slots : tasks[k].pc = "idle"
  /\ chatSession.id # 0
  /\ \A i \in DOMAIN messages : ~messages[i].isError

\* C10 as stated: after completed sends across model switches the history
\* of the final session is the earlier non-error, non-placeholder turns,
\* once each and in order.
C10_HistoryIsConversation ==
  AtRest => chatSession.history = historyForGemini(validHistory(messages))

\* C10, amended: the same, provided every getHistory of a switch on the way
\* succeeded.
C10_HistoryIsConversationIfExported ==
  (AtRest /\ ~historyDropped) => chatSession.history = historyForGemini(validHistory(messages))

\* C10 witness: chat, code and chat again have completed, and the session of
\* the general model holds the six turns
C10_Witness ==
  /\ AtRest
  /\ ~historyDropped
  /\ chatSession.model = FLASH
  /\ chatSession.id >= 3
  /\ Len(chatSession.history) = 6
  /\ Len(messages) = 7

\* a step in which the send of slot k issues a backend call, and the
\* credential the call is made with
StreamIssued(k) == tasks[k].pc = "session" /\ tasks'[k].pc = "streaming"
ImageIssued(k) == tasks[k].pc = "idle" /\ tasks'[k].pc = "image"
VideoIssued(k) ==
  \/ tasks[k].pc = "idle" /\ tasks'[k].pc = "videoCreate"
  \/ tasks[k].pc \in {"videoCreate", "videoPoll"} /\ tasks'[k].pc \in {"videoPoll", "videoFetch"}
SummaryIssued == summ.pc = "idle" /\ summ'.pc = "calling"
EnhanceIssued == enh.pc = "idle" /\ enh'.pc = "calling"

\* C11 as stated: every backend call is made with the credential stored at
\* the time of the call, whatever its kind.
C11_CallsUseStoredKey ==
  [][/\ \A k \in Slots :
          (StreamIssued(k) \/ ImageIssued(k) \/ VideoIssued(k)) => tasks'[k].key = apiKey
     /\ SummaryIssued => summ'.key = apiKey
     /\ EnhanceIssued => enh'.key = apiKey]_vars

\* C11, amended: every backend call of an operation started after the key
\* was saved is made with the stored credential; the calls of a send that
\* was pending when the key was saved are left out.
C11_NewCallsUseStoredKey ==
  [][/\ \A k \in Slots :
          ((StreamIssued(k) \/ ImageIssued(k) \/ VideoIssued(k)) /\ ~tasks'[k].orphan)
          => (tasks'[k].key = apiKey /\ apiKey' = apiKey)
     /\ SummaryIssued => summ'.key = apiKey
     /\ EnhanceIssued => enh'.key = apiKey]_vars

\* C11 witness: after the key was replaced, a chat stream runs on a session
\* built with the new key
C11_Witness ==
  \E k \in Slots :
    /\ tasks[k].pc = "streaming"
    /\ ~tasks[k].orphan
    /\ tasks[k].key = "k2"
    /\ apiKey = "k2"
    /\ chatSession.id = 2
    /\ chatSession.key = "k2"
    /\ tasks[k].sid = 2

\* a step in which the send of slot k starts and asks for the client
ClientAsked(k) ==
  /\ tasks[k].pc = "idle"
  /\ tasks'[k].pc # "idle"
  /\ tasks'[k].mode \in {"chat", "code", "image"}

\* C12: with no credential the chat interface mounts and stays usable, no
\* client is cached and no session exists, and every use of getAiClient
\* fails with the missing-credential error; once a credential is stored the
\* uses succeed.
C12_NoCredential ==
  /\ [](apiKey = "" => (aiClient = "" /\ chatSession.id = 0))
  /\ [][/\ apiKey = ""
          => /\ \A k \in Slots :
                  ClientAsked(k) => (/\ tasks'[k].pc = "failed"
                                     /\ tasks'[k].err = API_KEY_MISSING
                                     /\ Len(messages') = Len(messages) + 2)
             /\ (summ.pc = "idle" /\ summ'.pc # "idle") => summ'.pc = "failed"
             /\ (enh.pc = "idle" /\ enh'.pc # "idle") => enh'.pc = "failed"
             /\ apiKey' = "" => aiClient' = ""
      /\ apiKey # ""
          => /\ \A k \in Slots : ClientAsked(k) => tasks'[k].pc \in {"image", "session", "export"}
             /\ (summ.pc = "idle" /\ summ'.pc # "idle") => summ'.pc = "calling"
             /\ (enh.pc = "idle" /\ enh'.pc # "idle") => enh'.pc = "calling"]_vars

\* C12 witness: mounted without a credential, a summary failed, then a send
\* was accepted and its use of the client failed too, and nothing is cached
C12_Witness ==
  \E k \in Slots :
    /\ apiKey = ""
    /\ aiClient = ""
    /\ tasks[k].pc = "failed"
    /\ tasks[k].err = API_KEY_MISSING
    /\ tasks[k].mode = "image"
    /\ Len(messages) = 4
    /\ summ.count = 1
    /\ messages[2].isError

\* C13: when a send fails, the catch block records the failure on the model
\* turn this send created (isError, not streaming) and changes no other
\* turn, the user turn included; the session is left as it is.
C13_FailureOnOwnTurn ==
  [][\A k \in Slots :
       (tasks[k].pc = "failed" /\ tasks'[k].pc = "idle")
       => /\ \A i \in DOMAIN messages :
               messages[i].id # tasks[k].bot => messages'[i] = messages[i]
          /\ messages' # messages
               => (/\ TurnOf(messages', tasks[k].bot).isError
                   /\ ~TurnOf(messages', tasks[k].bot).isStreaming)
          /\ chatSession' = chatSession]_vars

\* the sends that have started and not finished
InFlight == {k \in Slots : tasks[k].pc # "idle"}

\* C14: at most one send is in flight at any time: no handleSend passes its
\* guard while the backend call or stream of an earlier send is pending.
C14_OneSendInFlight ==
  Cardinality(InFlight) <= 1

\* C15: a stop leaves the pending image or video job running, and when the
\* job of a stopped send completes or fails, the message list and isLoading
\* are left as they are.
C15_StoppedJobIsSilent ==
  [][/\ (isLoading /\ ~abort /\ abort') => tasks' = tasks
     /\ \A k \in Slots :
          (/\ tasks[k].mode \in {"image", "video"}
           /\ tasks[k].pc # "idle"
           /\ tasks'[k].pc = "idle"
           /\ IsStopped(TurnOf(messages, tasks[k].bot)))
          => (messages' = messages /\ isLoading' = isLoading)]_vars

\* C16: getHistory is called on a session only when no stream is pending
\* against that session.
C16_ExportWhenNoStreamPending ==
  [][\A k \in Slots :
       (tasks[k].pc = "idle" /\ tasks'[k].pc = "export")
       => \A j \in Slots : ~(tasks[j].pc = "streaming" /\ tasks[j].sid = chatSession.id)]_vars

RECURSIVE NonEmptyTexts(_)
\* the chunk texts of a stream that are not empty, in emission order
NonEmptyTexts(chunks) ==
  IF chunks = <<>> THEN <<>>
  ELSE IF Head(chunks) # "" THEN <<Head(chunks)>> \o NonEmptyTexts(Tail(chunks))
       ELSE NonEmptyTexts(Tail(chunks))

\* C17: while a stream is consumed, the accumulated text is the
\* concatenation, in emission order, of the non-empty texts of the chunks
\* consumed so far, and it is the text shown on the turn while the turn is
\* streaming.
C17_ChunksInOrder ==
  /\ [](\A k \in Slots :
          tasks[k].pc = "streaming"
          => /\ Len(tasks[k].emitted) = tasks[k].chunks
             /\ tasks[k].fullText = NonEmptyTexts(tasks[k].emitted)
             /\ TurnOf(messages, tasks[k].bot).isStreaming
                  => TurnOf(messages, tasks[k].bot).text = tasks[k].fullText)
  /\ [][\A k \in Slots :
          (/\ tasks[k].pc = "streaming"
           /\ tasks'[k].pc = "streaming"
           /\ tasks'[k].fullText # tasks[k].fullText)
          => /\ tasks'[k].fullText = tasks[k].fullText \o <<tasks'[k].emitted[tasks'[k].chunks]>>
             /\ TurnOf(messages', tasks[k].bot).text = tasks'[k].fullText]_vars

\* C17 witness: two chunks with text were consumed and are shown in order
C17_Witness ==
  \E k \in Slots :
    /\ tasks[k].pc = "streaming"
    /\ ~abort
    /\ tasks[k].emitted = <<"x", "y">>
    /\ TurnOf(messages, tasks[k].bot).text = <<"x", "y">>
    /\ TurnOf(messages, tasks[k].bot).isStreaming

\* the mode of the send that takes a step in slot k
ModeOfStep(k) == IF tasks[k].pc = "idle" THEN tasks'[k].mode ELSE tasks[k].mode

\* C18: no step of a send in image or video mode, from handleSend to the
\* success or failure of the generation, creates, replaces or reads the
\* chat session: chatSession with its history and currentModel are
\* unchanged and the send holds no session.
C18_ImageVideoLeaveSession ==
  [][\A k \in Slots :
       (tasks'[k] # tasks[k] /\ ModeOfStep(k) \in {"image", "video"})
       => /\ chatSession' = chatSession
          /\ currentModel' = currentModel
          /\ nextSid' = nextSid
          /\ tasks'[k].sid = 0
          /\ tasks'[k].pc \notin {"export", "session", "streaming"}]_vars

\* C18 witness: an image generation is pending beside a session that holds
\* the turns of the stored conversation
C18_Witness ==
  \E k \in Slots :
    /\ tasks[k].mode = "image"
    /\ tasks[k].pc = "image"
    /\ chatSession.id = 1
    /\ Len(chatSession.history) = 2

\* C19: handleSend routes by mode. A chat send holds a session of the
\* general model and a code send one of the code model, each with exactly
\* one streaming call; an image send makes exactly one image call, a video
\* send creates exactly one job; no send makes calls of two kinds.
C19_RoutesByMode ==
  \A k \in Slots :
    LET t == tasks[k]
    IN /\ t.mode = "image"
            => /\ t.pc \in {"image", "failed"}
               /\ t.pc = "image" => t.calls = 1
               /\ t.calls <= 1 /\ t.sid = 0 /\ t.checks = 0 /\ t.chunks = 0
       /\ t.mode = "video"
            => /\ t.pc \in {"videoCreate", "videoPoll", "videoFetch", "failed"}
               /\ t.calls = 1 /\ t.sid = 0 /\ t.chunks = 0
       /\ t.mode \in {"chat", "code"}
            => /\ t.pc \in {"export", "session", "streaming", "failed"}
               /\ t.pc \in {"export", "session"} => t.calls = 0
               /\ t.pc = "streaming" => (t.calls = 1 /\ t.sid # 0)
               /\ t.calls <= 1 /\ t.checks = 0 /\ t.downloads = 0
               /\ t.pc = "session"
                    => /\ chatSession.id = t.sid
                       /\ t.mode = "code" => chatSession.model = "gemini-3-pro-preview"
                       /\ t.mode = "chat" => chatSession.model = "gemini-2.5-flash"

\* C19 witness: a code send streams on a session of the code model
C19_Witness ==
  \E k \in Slots :
    /\ tasks[k].mode = "code"
    /\ tasks[k].pc = "streaming"
    /\ tasks[k].calls = 1
    /\ chatSession.id = tasks[k].sid
    /\ chatSession.model = "gemini-3-pro-preview"

\* the turn of the message list a history entry was recorded for: the turn
\* of the same role and text
ListedAs(h, m) == h.role = m.role /\ h.parts = <<TextPart(m.text)>>

\* C20: the history getHistory returns on a model switch, which is handed
\* to the new session, holds no turn that the message list flags as error
\* and no welcome turn.
C20_SwitchHistoryIsClean ==
  [][\A k \in Slots :
       (tasks[k].pc = "idle" /\ tasks'[k].pc = "export" /\ tasks'[k].exported = "ok")
       => \A n \in DOMAIN tasks'[k].hist : \A i \in DOMAIN messages :
            ListedAs(tasks'[k].hist[n], messages[i])
            => (~messages[i].isError /\ messages[i].id # WelcomeId)]_vars

\* C22: when the reads of a selected batch finish, the readable files of the
\* batch, in selection order, are appended after the attachments pending then,
\* the failing files are dropped, and no message (no error turn) is added
C22_FailingFilesDropped ==
  [][\A i \in 1..MaxAtts : \A readable \in SUBSET Files :
       FilesRead(i, readable) =>
         /\ attachments' = attachments \o SelectSeq(reading[i], LAMBDA f : f \in readable)
         /\ messages' = messages
         /\ isLoading' = isLoading]_vars

\* a batch of two was read with its second file failing: only the first is pending
C22_Witness ==
  /\ reading = <<>>
  /\ attachments = <<[mimeType |-> "application/pdf", data |-> "d2"]>>

\* C23 as stated: between two credential changes at most one client is
\* constructed, whatever the kind of the calls made.
C23_OneClient == built.cached + built.veo <= 1

\* C23, amended: between two credential changes getAiClient constructs at
\* most one client, and every chat, image, summary and enhancement call is
\* made through it; each video generation constructs a client of its own.
C23_OneCachedClient ==
  /\ [](/\ built.cached <= 1
        /\ (aiClient # "") => (built.cached = 1 /\ aiClient = apiKey))
  /\ [][/\ \A k \in Slots :
             ((StreamIssued(k) \/ ImageIssued(k)) /\ ~tasks'[k].orphan)
             => (tasks'[k].key = aiClient' /\ built'.cached = 1)
        /\ (SummaryIssued) => (summ'.key = aiClient' /\ built'.cached = 1)
        /\ (EnhanceIssued) => (enh'.key = aiClient' /\ built'.cached = 1)
        /\ (built'.veo # built.veo)
             => \/ built'.veo = 0 /\ aiClient' \in {"", apiKey'}
                \/ /\ built' = [built EXCEPT !.veo = @ + 1]
                   /\ \E k \in Slots : tasks[k].pc = "idle" /\ tasks'[k].pc = "videoCreate"]_vars

\* a video generation built its own client and, in the same credential
\* generation, an enhancement call runs on the cached client
C23_Witness ==
  /\ built = [cached |-> 1, veo |-> 1]
  /\ enh.pc = "calling"
  /\ enh.key = aiClient
  /\ \E k \in Slots : tasks[k].pc \in {"videoCreate", "videoPoll"} /\ ~tasks[k].orphan

\* C27: a model turn that reports 'Image generated successfully.' carries at
\* least one attachment
C27_SuccessHasImage ==
  \A i \in DOMAIN messages :
    (messages[i].role = "model" /\ messages[i].text = <<"Image generated successfully.">>)
    => Len(messages[i].attachments) >= 1

\* C28: with an empty credential a send, in whatever mode, fails with the
\* missing-credential error and no backend call has been issued for it
C28_NoCredentialNoCall ==
  [][apiKey = ""
       => \A k \in Slots :
            (tasks[k].pc = "idle" /\ tasks'[k].pc # "idle")
            => /\ tasks'[k].pc = "failed"
               /\ tasks'[k].err = API_KEY_MISSING
               /\ tasks'[k].calls = 0]_vars

\* send, stop and summarize racing with the completions of the backend
\* calls, in chat and image mode
LoadUser ==
  \/ SetInput(" a ")
  \/ \E m \in {"chat", "image"} : SetMode(m)
  \/ (mode \in {"chat", "image"} /\ handleSend(MaxSends))
  \/ handleStopGeneration
  \/ handleSummarizeChat

\* the continuations of the pending invocations: every await settles
LoadAsync ==
  \/ \E ok \in BOOLEAN : SummaryDone(ok)
  \/ \E k \in Slots : IssueStream(k)
  \/ \E k \in Slots : StreamChunk(k, TRUE)
  \/ \E k \in Slots : StreamEnd(k)
  \/ \E k \in Slots : BackendFail(k)
  \/ \E k \in Slots : HandleSendCatch(k)
  \/ \E k \in Slots : \E parts \in ImageResponses : ImageDone(k, parts)

NextLoad == LoadUser \/ LoadAsync

\* the event loop runs a continuation that is ready, and every backend call
\* completes or fails
SpecLoad == Init /\ [][NextLoad]_vars /\ WF_vars(LoadAsync)

\* no handleSend and no handleSummarizeChat invocation is pending
NothingPending == (\A k \in Slots : tasks[k].pc = "idle") /\ summ.pc = "idle"

\* C26: isLoading does not stay true: once every pending backend call has
\* completed or failed, isLoading is false (so that a send with text is
\* accepted), and a true isLoading is always followed by a false one
C26_LoadingEnds ==
  /\ [](NothingPending => ~isLoading)
  /\ (isLoading ~> ~isLoading)

\* after a send was stopped and a summary was started, both calls have
\* completed and the interface is idle with all four turns in the list
C26_Witness ==
  /\ NothingPending
  /\ ~isLoading
  /\ abort
  /\ summ.count = 1
  /\ \E i \in DOMAIN messages : messages[i].text = <<STOPPED>>

\* the session list in use: new chat (through clearChat) and selection
\* racing with the sends and summaries of the mounted ChatInterface
AppUser ==
  \/ SetInput(" a ")
  \/ handleSend(MaxAppSends)
  \/ handleSummarizeChat
  \/ (nextSid <= MaxAppSid /\ clearChat)
  \/ (nextSid <= MaxAppSid /\ \E id \in 1..MaxSessions : selectSession(id))

\* the continuations of the pending invocations: every await settles
AppAsync ==
  \/ \E ok \in BOOLEAN : SummaryDone(ok)
  \/ \E k \in Slots : IssueStream(k)
  \/ \E k \in Slots : StreamChunk(k, TRUE)
  \/ \E k \in Slots : StreamEnd(k)
  \/ \E k \in Slots : BackendFail(k)
  \/ \E k \in Slots : HandleSendCatch(k)

NextApp == AppUser \/ AppAsync

SpecApp == Init /\ [][NextApp]_vars /\ WF_vars(AppAsync)

\* the session list alone: sessions are created, selected and deleted
NextSessions ==
  \/ SetInput(" a ")
  \/ createNewChat
  \/ \E id \in 1..MaxSessions : selectSession(id)
  \/ \E id \in 1..MaxSessions : deleteSession(id)

SpecSessions == Init /\ [][NextSessions]_vars

\* C24: with a user logged in and the effects settled, the session list is
\* not empty and activeSessionId is the id of a session of the list, whatever
\* sessions were created, selected and deleted; the ids of the list are distinct
C24_ActiveSessionExists ==
  /\ Len(sessions) >= 1
  /\ activeSessionId \in SessionIds(sessions)
  /\ Cardinality(SessionIds(sessions)) = Len(sessions)

\* the two first sessions were deleted and the third, made by the effect or
\* by New Chat, is the only one and the active one
C24_Witness ==
  /\ Len(sessions) = 1
  /\ sessions[1].id = 3
  /\ activeSessionId = 3
  /\ nextId = 4

RECURSIVE Embeds(_, _)
\* h is c with some entries left out
Embeds(h, c) ==
  IF h = <<>> THEN TRUE
  ELSE IF c = <<>> THEN FALSE
  ELSE IF Head(h) = Head(c) THEN Embeds(Tail(h), Tail(c))
  ELSE Embeds(h, Tail(c))

\* a step that shows a conversation created by it (clear chat / new chat)
ResetStep == activeSessionId' \notin SessionIds(sessions)

\* C21: a reset leaves no session carrying the previous conversation: the
\* new interface shows the welcome turn only and, with a credential, a new
\* Chat object on the general model with an empty history replaces the old
\* one; at all times the history of the active session holds turns of the
\* conversation shown only, and a chat send is issued on the active session
\* with a history drawn from the turns shown before the send
C21_ResetDropsConversation ==
  /\ [](Embeds(chatSession.history, historyForGemini(validHistory(messages))))
  /\ [][/\ ResetStep
            => /\ messages' = <<Welcome>>
               /\ (apiKey # "") => /\ chatSession'.id # chatSession.id
                                   /\ chatSession'.id # 0
                                   /\ chatSession'.history = <<>>
                                   /\ chatSession'.model = FLASH
                                   /\ currentModel' = FLASH
               /\ (apiKey = "") => chatSession'.id = 0
        /\ \A k \in Slots :
             (StreamIssued(k) /\ ~tasks'[k].orphan)
             => /\ tasks'[k].sid = chatSession'.id
                /\ Embeds(chatSession'.history,
                          historyForGemini(validHistory(SubSeq(messages', 1, Len(messages') - 2))))]_vars

\* after a reset away from a stored conversation of three turns, a send of
\* the new conversation streams on a session with an empty history
C21_Witness ==
  /\ activeSessionId = 2
  /\ \E i \in DOMAIN sessions : sessions[i].id = 1 /\ Len(sessions[i].messages) = 3
  /\ chatSession.history = <<>>
  /\ \E k \in Slots : /\ tasks[k].pc = "streaming"
                       /\ ~tasks[k].orphan
                       /\ tasks[k].sid = chatSession.id

\* a step that opens the stored conversation of session id
OpenStep(id) ==
  /\ id \in SessionIds(sessions)
  /\ activeSessionId # id
  /\ activeSessionId' = id

\* the stored messages of session id, before it is opened
StoredMessages(id) ==
  LET i == CHOOSE i \in DOMAIN sessions : sessions[i].id = id IN sessions[i].messages

\* the stored messages without the error turns and the welcome turn, each
\* as a history entry with its role and its text
ExpectedHistory(stored) ==
  LET kept == SelectSeq(stored, LAMBDA m : ~m.isError /\ m.id # WelcomeId)
  IN [i \in 1..Len(kept) |->
        [role |-> kept[i].role,
         parts |-> <<[kind |-> "text", text |-> kept[i].text, mimeType |-> "", data |-> ""]>>]]

\* C29: when a stored conversation is opened (with a credential), a new
\* session on the general model is created whose history is the stored
\* messages without the isError turns and the welcome turn, in stored order,
\* one entry per message with its role and text, and is empty when nothing
\* remains; the interface shows the stored messages
C29_OpenRestoresHistory ==
  [][\A id \in 1..MaxSessions :
       (OpenStep(id) /\ apiKey # "")
       => /\ messages' = StoredMessages(id)
          /\ chatSession'.id \notin {0, chatSession.id}
          /\ chatSession'.model = FLASH
          /\ currentModel' = FLASH
          /\ chatSession'.systemInstruction = DEFAULT_SYSTEM_INSTRUCTION
          /\ chatSession'.history = ExpectedHistory(StoredMessages(id))]_vars

\* the first conversation, whose only send failed, was reopened: of its
\* three stored turns the history holds the user turn alone
C29_Witness ==
  /\ activeSessionId = 1
  /\ nextId = 3
  /\ Len(messages) = 3
  /\ messages[1].id = WelcomeId
  /\ messages[3].isError
  /\ Len(chatSession.history) = 1
  /\ chatSession.history[1].role = "user"

\* the turns a stored conversation can hold
MaxTurns == 2 * MaxSends + MaxSummaries + 3

\* turn i of the stored conversation of session id is marked isStreaming
StreamingAt(id, i) ==
  \E j \in DOMAIN storedSessions :
    /\ storedSessions[j].id = id
    /\ i \in DOMAIN storedSessions[j].messages
    /\ storedSessions[j].messages[i].isStreaming

\* C25: every model turn stored with isStreaming=true is eventually stored
\* with isStreaming=false, given that every backend call completes or fails
C25_StreamingEnds ==
  \A id \in 1..MaxSessions : \A i \in 1..MaxTurns :
    StreamingAt(id, i) ~> ~StreamingAt(id, i)
====
